---- MODULE Spec2Model ----
(***************************************************************************)
(* Model of the CSV cleaning and join procedure of day3/regression.py:     *)
(* read_csv (lines 60-73) and get_arrs (lines 89-99).                      *)
(*                                                                         *)
(* Text is modelled as a sequence of one-character strings, so that the    *)
(* key formatting "%s__%s" is a real concatenation and float() is a real   *)
(* parse.  A csv.DictReader row is a function from header name to text.    *)
(***************************************************************************)
EXTENDS Integers, Sequences, FiniteSets, TLC

(* ------------------------------ bounds --------------------------------- *)
\* Largest number of data rows of a source file read by read_csv.
MaxRows == 2

(* ------------------------------ text ----------------------------------- *)
DigitChars == {"0", "1", "2", "3", "4", "5", "6", "7", "8", "9"}

DigitVal(c) ==
  CASE c = "0" -> 0 [] c = "1" -> 1 [] c = "2" -> 2 [] c = "3" -> 3
    [] c = "4" -> 4 [] c = "5" -> 5 [] c = "6" -> 6 [] c = "7" -> 7
    [] c = "8" -> 8 [] c = "9" -> 9

RECURSIVE Decimal(_)
Decimal(s) ==
  IF s = <<>> THEN 0
  ELSE 10 * Decimal(SubSeq(s, 1, Len(s) - 1)) + DigitVal(s[Len(s)])

\* The value csv.DictReader gives to a field that a short row lacks.
None == <<"None">>

\* float(x) restricted to the values of the model: None raises TypeError,
\* the empty text and a text with a non-digit character raise ValueError, a
\* digit text parses to its decimal value.
float(s) ==
  IF s = None THEN [raised |-> TRUE, exc |-> "TypeError", val |-> 0]
  ELSE IF s # <<>> /\ \A i \in 1..Len(s) : s[i] \in DigitChars
  THEN [raised |-> FALSE, exc |-> "none", val |-> Decimal(s)]
  ELSE [raised |-> TRUE, exc |-> "ValueError", val |-> 0]

(* --------------------------- input domains ----------------------------- *)
\* The header of every file names State, County, Unreliable and the
\* requested columns, so that no row[...] lookup raises KeyError.  State and
\* County are texts; a numeric column may be None in a short row.
MkRow(state, county, unreliable, ypll, pop) ==
  ("State" :> state) @@ ("County" :> county) @@ ("Unreliable" :> unreliable)
    @@ ("YPLL Rate" :> ypll) @@ ("Population" :> pop)

\* <<State, County>> pairs: a county, the state summary row, and two
\* places whose names hold the separator character.
Places ==
  { << <<"W">>, <<"D">> >>, << <<"W">>, <<>> >>,
    << <<"W">>, <<"_">> >>, << <<"W", "_">>, <<>> >> }

Marks == { <<>>, <<"x">> }

\* <<YPLL Rate, Population>> values: both numeric; an empty value; a
\* non-numeric value; a short row, which lacks its last field.
Values ==
  { << <<"7">>, <<"1", "2">> >>, << <<"1", "2">>, <<>> >>,
    << <<"n">>, <<"7">> >>, << <<"7">>, None >> }

Row == { MkRow(p[1], p[2], u, v[1], v[2]) : p \in Places, u \in Marks, v \in Values }

SeqsUpTo(S, n) == UNION { [1..m -> S] : m \in 0..n }

\* A source file: one that cannot be opened, or the rows under its header.
Files ==
  { [opens |-> FALSE, data |-> <<>>] }
    \cup { [opens |-> TRUE, data |-> d] : d \in SeqsUpTo(Row, MaxRows) }

ColLists ==
  { <<>>, <<"YPLL Rate">>, <<"Population">>,
    <<"YPLL Rate", "Population">>, <<"Population", "YPLL Rate">> }

(* ----------------------------- read_csv -------------------------------- *)
\* Variant of IsUnreliable that ignores check_reliable.
IsUnreliableUnflagged(row, chk) == row["Unreliable"] = <<"x">>

\* line 64: check_reliable and row['Unreliable'] == "x"
IsUnreliable(row, chk) == chk /\ row["Unreliable"] = <<"x">>

\* Variant of IsSummary that never recognises a summary row.
IsSummaryNever(row) == FALSE

\* line 66: row['County'] == ""
IsSummary(row) == row["County"] = <<>>

\* line 68: rname = "%s__%s" % (row['State'], row['County'])
Key(row) == row["State"] \o <<"_", "_">> \o row["County"]

\* Variant of Floats that leaves out the columns that do not parse.
RECURSIVE FloatsSkipBad(_, _)
FloatsSkipBad(row, cs) ==
  IF cs = <<>> THEN [raised |-> FALSE, exc |-> "none", val |-> <<>>]
  ELSE LET f == float(row[Head(cs)])
           rest == FloatsSkipBad(row, Tail(cs))
       IN [raised |-> FALSE, exc |-> "none",
           val |-> IF f.raised THEN rest.val ELSE <<f.val>> \o rest.val]

\* line 70: [float(row[col]) for col in cols]; the first float() that raises
\* ends the comprehension.
RECURSIVE Floats(_, _)
Floats(row, cs) ==
  IF cs = <<>> THEN [raised |-> FALSE, exc |-> "none", val |-> <<>>]
  ELSE LET f == float(row[Head(cs)])
       IN IF f.raised THEN [raised |-> TRUE, exc |-> f.exc, val |-> <<>>]
          ELSE LET rest == Floats(row, Tail(cs))
               IN IF rest.raised THEN rest
                  ELSE [raised |-> FALSE, exc |-> "none",
                        val |-> <<f.val>> \o rest.val]

\* Variant of Store that keeps the entry a key already has.
StoreKeepFirst(rws, rname, value) ==
  [k \in (DOMAIN rws) \cup {rname} |-> IF k \in DOMAIN rws THEN rws[k] ELSE value]

\* line 70: rows[rname] = value
Store(rws, rname, value) ==
  [k \in (DOMAIN rws) \cup {rname} |-> IF k = rname THEN value ELSE rws[k]]

\* Variant of Caught for a clause "except ValueError:".
CaughtValueError(exc) == exc = "ValueError"

\* line 71: the bare except clause catches every exception.
Caught(exc) == TRUE

\* Variant of Body that resets the entry of the key before parsing, so
\* that a failed parse leaves an empty entry.
BodyResetEntry(rws, row, cs, chk) ==
  IF chk /\ row["Unreliable"] = <<"x">> THEN [rows |-> rws, exc |-> "none"]
  ELSE IF row["County"] = <<>> THEN [rows |-> rws, exc |-> "none"]
  ELSE LET rname == row["State"] \o <<"_", "_">> \o row["County"]
           fl == Floats(row, cs)
       IN [rows |-> [k \in (DOMAIN rws) \cup {rname} |->
                      IF k = rname THEN fl.val ELSE rws[k]],
           exc |-> "none"]

\* lines 64-72: the body of the loop over the reader, for one row.  The
\* result is the mapping after the row and the exception that leaves the
\* body, "none" when none does.
Body(rws, row, cs, chk) ==
  IF IsUnreliable(row, chk) THEN [rows |-> rws, exc |-> "none"]
  ELSE IF IsSummary(row) THEN [rows |-> rws, exc |-> "none"]
  ELSE LET rname == Key(row)
           fl == Floats(row, cs)
       IN IF ~fl.raised THEN [rows |-> Store(rws, rname, fl.val), exc |-> "none"]
          ELSE IF Caught(fl.exc) THEN [rows |-> rws, exc |-> "none"]
          ELSE [rows |-> rws, exc |-> fl.exc]

EmptyMap == [k \in {} |-> <<>>]

\* read_csv as a whole: the mapping returned for the rows of an opened file.
RECURSIVE read_csv(_, _, _)
read_csv(data, cs, chk) ==
  IF data = <<>> THEN EmptyMap
  ELSE Body(read_csv(SubSeq(data, 1, Len(data) - 1), cs, chk),
            data[Len(data)], cs, chk).rows

(* --------------------------- get_arrs inputs --------------------------- *)
JoinRow ==
  { MkRow(<<"W">>, <<"D">>, <<>>, <<"7">>, <<"1", "2">>),
    MkRow(<<"W">>, <<"D">>, <<"x">>, <<"7">>, <<"1", "2">>),
    MkRow(<<"W">>, <<"D">>, <<>>, <<"1", "2">>, <<>>),
    MkRow(<<"W">>, <<"_">>, <<>>, <<"7">>, <<"1", "2">>),
    MkRow(<<"W">>, <<"_">>, <<>>, <<"n">>, <<"7">>),
    MkRow(<<"W">>, <<>>, <<>>, <<"7">>, <<"1", "2">>) }

JoinFiles ==
  { [opens |-> FALSE, data |-> <<>>] }
    \cup { [opens |-> TRUE, data |-> d] : d \in SeqsUpTo(JoinRow, MaxRows) }

DependentColLists == { <<>>, <<"YPLL Rate">>, <<"YPLL Rate", "Population">> }

IndependentColLists == { <<"Population">>, <<"Population", "YPLL Rate">> }

NoFile == [opens |-> FALSE, data |-> <<>>]

\* The orders in which a dict of the given key set may be iterated.
Orders(keys) ==
  { o \in [1..Cardinality(keys) -> keys] :
      \A i, j \in 1..Cardinality(keys) : i # j => o[i] # o[j] }

(* ------------------------------- state --------------------------------- *)
VARIABLES
  file_name, cols, check_reliable,   \* read_csv: the arguments of the call
  pc,                                \* read_csv: position in the call
  reader,                            \* read_csv: rows consumed from the reader
  rows,                              \* read_csv: the mapping being built
  handle,                            \* read_csv: the file object of line 61
  ypll_file, measures_file,          \* get_arrs: the two dataset files
  dependent_cols, independent_cols,  \* get_arrs: the arguments of the call
  jpc,                               \* get_arrs: position in the call
  ypll, measures,                    \* get_arrs: the two cleaned mappings
  order, pos,                        \* get_arrs: iteration of ypll
  ypll_arr, measures_arr             \* get_arrs: the two output lists

rvars == <<file_name, cols, check_reliable, pc, reader, rows, handle>>

jvars == <<ypll_file, measures_file, dependent_cols, independent_cols, jpc,
           ypll, measures, order, pos, ypll_arr, measures_arr>>

vars == <<rvars, jvars>>

\* No read_csv call is modelled step by step.
ReadIdle ==
  /\ file_name = NoFile
  /\ cols = <<>>
  /\ check_reliable = FALSE
  /\ pc = "idle"
  /\ reader = 0
  /\ rows = EmptyMap
  /\ handle = "none"

\* No get_arrs call is in progress.
JoinIdle ==
  /\ ypll_file = NoFile
  /\ measures_file = NoFile
  /\ dependent_cols = <<>>
  /\ independent_cols = <<>>
  /\ jpc = "idle"
  /\ ypll = EmptyMap
  /\ measures = EmptyMap
  /\ order = <<>>
  /\ pos = 0
  /\ ypll_arr = <<>>
  /\ measures_arr = <<>>

(* -------------------------- read_csv, by steps -------------------------- *)
Init ==
  /\ file_name \in Files
  /\ cols \in ColLists
  /\ check_reliable \in BOOLEAN
  /\ pc = "call"
  /\ reader = 0
  /\ rows = EmptyMap
  /\ handle = "none"
  /\ JoinIdle

\* line 61, open() succeeds; line 62.
Open ==
  /\ pc = "call"
  /\ file_name.opens
  /\ handle' = "open"
  /\ pc' = "loop"
  /\ rows' = EmptyMap
  /\ UNCHANGED <<file_name, cols, check_reliable, reader, jvars>>

\* line 61, open() raises IOError, which leaves read_csv.
OpenFails ==
  /\ pc = "call"
  /\ ~file_name.opens
  /\ pc' = "raised"
  /\ UNCHANGED <<file_name, cols, check_reliable, reader, rows, handle, jvars>>

\* lines 63-72, one iteration.
Loop ==
  /\ pc = "loop"
  /\ reader < Len(file_name.data)
  /\ reader' = reader + 1
  /\ LET b == Body(rows, file_name.data[reader + 1], cols, check_reliable)
     IN /\ rows' = b.rows
        /\ pc' = IF b.exc = "none" THEN "loop" ELSE "raised"
  /\ UNCHANGED <<file_name, cols, check_reliable, handle, jvars>>

\* line 73, after the reader is exhausted.  The code never closes the file
\* object: it is released when the interpreter reclaims the reader, which
\* may be at the return or later.
Return ==
  /\ pc = "loop"
  /\ reader = Len(file_name.data)
  /\ pc' = "returned"
  /\ \E reclaimed \in BOOLEAN : handle' = IF reclaimed THEN "closed" ELSE "open"
  /\ UNCHANGED <<file_name, cols, check_reliable, reader, rows, jvars>>

\* The interpreter reclaims the unreferenced file object.
Reclaim ==
  /\ pc = "returned"
  /\ handle = "open"
  /\ handle' = "closed"
  /\ UNCHANGED <<file_name, cols, check_reliable, pc, reader, rows, jvars>>

Next == Open \/ OpenFails \/ Loop \/ Return \/ Reclaim

Spec == Init /\ [][Next]_vars

(* ------------------------------ get_arrs -------------------------------- *)
InitJoin ==
  /\ ReadIdle
  /\ ypll_file \in JoinFiles
  /\ measures_file \in JoinFiles
  /\ dependent_cols \in DependentColLists
  /\ independent_cols \in IndependentColLists
  /\ jpc = "ypll"
  /\ ypll = EmptyMap
  /\ measures = EmptyMap
  /\ order = <<>>
  /\ pos = 0
  /\ ypll_arr = <<>>
  /\ measures_arr = <<>>

\* line 90: ypll = read_csv(<ypll.csv>, dependent_cols, True)
LoadYpll ==
  /\ jpc = "ypll"
  /\ ypll_file.opens
  /\ ypll' = read_csv(ypll_file.data, dependent_cols, TRUE)
  /\ jpc' = "measures"
  /\ UNCHANGED <<rvars, ypll_file, measures_file, dependent_cols,
                 independent_cols, measures, order, pos, ypll_arr, measures_arr>>

\* line 90, the IOError of read_csv leaves get_arrs.
LoadYpllFails ==
  /\ jpc = "ypll"
  /\ ~ypll_file.opens
  /\ jpc' = "raised"
  /\ UNCHANGED <<rvars, ypll_file, measures_file, dependent_cols,
                 independent_cols, ypll, measures, order, pos, ypll_arr,
                 measures_arr>>

\* Variant of LoadMeasures that loads with reliability checking on.
LoadMeasuresChecked ==
  /\ jpc = "measures"
  /\ measures_file.opens
  /\ measures' = read_csv(measures_file.data, independent_cols, TRUE)
  /\ ypll_arr' = <<>>
  /\ measures_arr' = <<>>
  /\ order' \in Orders(DOMAIN ypll)
  /\ pos' = 0
  /\ jpc' = "join"
  /\ UNCHANGED <<rvars, ypll_file, measures_file, dependent_cols,
                 independent_cols, ypll>>

\* line 91: measures = read_csv(<additional_measures_cleaned.csv>,
\* independent_cols, False); lines 93-95: the two empty lists, and the
\* iterator over ypll, whose order the dict decides.
LoadMeasures ==
  /\ jpc = "measures"
  /\ measures_file.opens
  /\ measures' = read_csv(measures_file.data, independent_cols, FALSE)
  /\ ypll_arr' = <<>>
  /\ measures_arr' = <<>>
  /\ order' \in Orders(DOMAIN ypll)
  /\ pos' = 0
  /\ jpc' = "join"
  /\ UNCHANGED <<rvars, ypll_file, measures_file, dependent_cols,
                 independent_cols, ypll>>

\* line 91, the IOError of read_csv leaves get_arrs.
LoadMeasuresFails ==
  /\ jpc = "measures"
  /\ ~measures_file.opens
  /\ jpc' = "raised"
  /\ UNCHANGED <<rvars, ypll_file, measures_file, dependent_cols,
                 independent_cols, ypll, measures, order, pos, ypll_arr,
                 measures_arr>>

\* lines 95-96, a key of ypll that measures lacks.
JoinSkip ==
  /\ jpc = "join"
  /\ pos < Len(order)
  /\ order[pos + 1] \notin DOMAIN measures
  /\ pos' = pos + 1
  /\ UNCHANGED <<rvars, ypll_file, measures_file, dependent_cols,
                 independent_cols, jpc, ypll, measures, order, ypll_arr,
                 measures_arr>>

\* Variant of JoinAppend that puts the independent vector at the front.
JoinAppendFront ==
  /\ jpc = "join"
  /\ pos < Len(order)
  /\ LET key == order[pos + 1]
         value == ypll[key]
     IN /\ key \in DOMAIN measures
        /\ value # <<>>
        /\ ypll_arr' = Append(ypll_arr, value[1])
        /\ measures_arr' = <<measures[key]>> \o measures_arr
  /\ pos' = pos + 1
  /\ UNCHANGED <<rvars, ypll_file, measures_file, dependent_cols,
                 independent_cols, jpc, ypll, measures, order>>

\* lines 95-98, a key of both mappings.
JoinAppend ==
  /\ jpc = "join"
  /\ pos < Len(order)
  /\ LET key == order[pos + 1]
         value == ypll[key]
     IN /\ key \in DOMAIN measures
        /\ value # <<>>
        /\ ypll_arr' = Append(ypll_arr, value[1])
        /\ measures_arr' = Append(measures_arr, measures[key])
  /\ pos' = pos + 1
  /\ UNCHANGED <<rvars, ypll_file, measures_file, dependent_cols,
                 independent_cols, jpc, ypll, measures, order>>

\* line 97, value[0] of an empty list raises IndexError.
JoinIndexError ==
  /\ jpc = "join"
  /\ pos < Len(order)
  /\ order[pos + 1] \in DOMAIN measures
  /\ ypll[order[pos + 1]] = <<>>
  /\ jpc' = "raised"
  /\ UNCHANGED <<rvars, ypll_file, measures_file, dependent_cols,
                 independent_cols, ypll, measures, order, pos, ypll_arr,
                 measures_arr>>

\* line 99
JoinReturn ==
  /\ jpc = "join"
  /\ pos = Len(order)
  /\ jpc' = "done"
  /\ UNCHANGED <<rvars, ypll_file, measures_file, dependent_cols,
                 independent_cols, ypll, measures, order, pos, ypll_arr,
                 measures_arr>>

NextJoin ==
  \/ LoadYpll \/ LoadYpllFails \/ LoadMeasures \/ LoadMeasuresFails
  \/ JoinSkip \/ JoinAppend \/ JoinIndexError \/ JoinReturn

SpecJoin == InitJoin /\ [][NextJoin]_vars

(* ============================== claims ================================= *)
\* The rows of the file given to read_csv, and the row just consumed.
Data == file_name.data

\* Every requested column of the row parses as a float.
AllParse(row, cs) == \A i \in 1..Len(cs) : ~float(row[cs[i]]).raised

\* The three drop rules of the loader, as the specification lists them.
Dropped(row, cs, chk) ==
  \/ chk /\ row["Unreliable"] = <<"x">>
  \/ row["County"] = <<>>
  \/ ~AllParse(row, cs)

\* The parsed values of the requested columns, in the order of the columns.
Parsed(row, cs) == [i \in 1..Len(cs) |-> float(row[cs[i]]).val]

\* The positions of the rows of a file that hit none of the drop rules.
Admitted(data, cs, chk) == { i \in 1..Len(data) : ~Dropped(data[i], cs, chk) }

AdmittedKeys(data, cs, chk) == { Key(data[i]) : i \in Admitted(data, cs, chk) }

Max(S) == CHOOSE m \in S : \A n \in S : n <= m

\* C1: the mapping read_csv returns holds exactly the keys of the rows that
\* hit none of the three drop rules, and each key maps to the parsed values
\* of the requested columns of such a row, in the order of cols and of
\* length len(cols).
C1_ExactKeysAndValues ==
  pc = "returned" =>
    /\ DOMAIN rows = AdmittedKeys(Data, cols, check_reliable)
    /\ \A k \in DOMAIN rows :
         /\ Len(rows[k]) = Len(cols)
         /\ \E i \in Admitted(Data, cols, check_reliable) :
              Key(Data[i]) = k /\ rows[k] = Parsed(Data[i], cols)

\* A call over two columns returned, with one row kept and one row dropped.
C1_Witness ==
  /\ pc = "returned"
  /\ Len(cols) = 2
  /\ Len(Data) = 2
  /\ Cardinality(Admitted(Data, cols, check_reliable)) = 1
  /\ Cardinality(DOMAIN rows) = 1

\* C2: a row marked unreliable ("x") is excluded when check_reliable is
\* true; with check_reliable false the same row is retained when its county
\* is non-empty and its requested columns all parse.
C2_ReliabilityRule ==
  [][ (pc = "loop" /\ reader' = reader + 1
         /\ Data[reader']["Unreliable"] = <<"x">>)
      => IF check_reliable
         THEN rows' = rows
         ELSE (Data[reader']["County"] # <<>> /\ AllParse(Data[reader'], cols))
              => /\ Key(Data[reader']) \in DOMAIN rows'
                 /\ rows'[Key(Data[reader'])] = Parsed(Data[reader'], cols) ]_vars

\* An otherwise valid row marked "x" was consumed with checking on, and the
\* mapping is still empty.
C2_Witness ==
  /\ pc = "loop"
  /\ check_reliable
  /\ reader = 1
  /\ cols # <<>>
  /\ Data[1]["Unreliable"] = <<"x">>
  /\ Data[1]["County"] # <<>>
  /\ AllParse(Data[1], cols)
  /\ rows = EmptyMap

\* C3: the key built from a row whose County is the empty string is absent
\* from the mapping read_csv returns.
C3_SummaryKeyAbsent ==
  pc = "returned" =>
    \A i \in 1..Len(Data) :
      Data[i]["County"] = <<>> => Key(Data[i]) \notin DOMAIN rows

\* C4: a row with a requested column that is empty or non-numeric is
\* excluded whole, whatever its other columns hold: every entry of the
\* mapping has len(cols) values and comes from a consumed row all of whose
\* requested columns parse.
C4_NoPartialEntry ==
  \A k \in DOMAIN rows :
    /\ Len(rows[k]) = Len(cols)
    /\ \E i \in 1..reader :
         /\ Key(Data[i]) = k
         /\ AllParse(Data[i], cols)
         /\ rows[k] = Parsed(Data[i], cols)

\* A row whose first requested column parses and whose second does not was
\* consumed, and its key is not in the mapping.
C4_Witness ==
  /\ pc = "loop"
  /\ reader = 1
  /\ Len(cols) = 2
  /\ Data[1]["County"] # <<>>
  /\ ~IsUnreliable(Data[1], check_reliable)
  /\ ~float(Data[1][cols[1]]).raised
  /\ float(Data[1][cols[2]]).raised
  /\ Key(Data[1]) \notin DOMAIN rows

\* C5: the two sequences get_arrs returns have the same length, the number
\* of keys admitted both from the mortality file with reliability checking
\* on and from the measures file with reliability checking off.
C5_JoinLength ==
  /\ Len(ypll_arr) = Len(measures_arr)
  /\ jpc = "done" =>
       Len(ypll_arr) =
         Cardinality(AdmittedKeys(ypll_file.data, dependent_cols, TRUE)
                       \cap AdmittedKeys(measures_file.data, independent_cols, FALSE))

\* get_arrs returned one joined region, its measures row marked "x", while
\* the mortality mapping also holds a key the measures mapping lacks.
C5_Witness ==
  /\ jpc = "done"
  /\ Len(ypll_arr) = 1
  /\ DOMAIN ypll \ DOMAIN measures # {}
  /\ \E i \in 1..Len(measures_file.data) :
       /\ measures_file.data[i]["Unreliable"] = <<"x">>
       /\ Key(measures_file.data[i]) \in DOMAIN ypll

\* The keys of both mappings, in the iteration order of the mortality
\* mapping.
Common ==
  LET InMeasures(k) == k \in DOMAIN measures
  IN SelectSeq(order, InMeasures)

\* C6: index i of both outputs of get_arrs belongs to one region key: the
\* i-th key of both mappings in the iteration order of the mortality
\* mapping; the dependent output holds the single dependent value of that
\* key, the independent output its full vector, each key once.
C6_IndexCorrespondence ==
  jpc = "done" =>
    /\ Len(ypll_arr) = Len(Common)
    /\ Len(measures_arr) = Len(Common)
    /\ \A i, j \in 1..Len(Common) : i # j => Common[i] # Common[j]
    /\ \A i \in 1..Len(Common) :
         /\ ypll_arr[i] = ypll[Common[i]][1]
         /\ measures_arr[i] = measures[Common[i]]
         /\ Len(measures_arr[i]) = Len(independent_cols)

\* get_arrs returned two regions whose dependent values differ and whose
\* independent vectors differ.
C6_Witness ==
  /\ jpc = "done"
  /\ Len(ypll_arr) = 2
  /\ ypll_arr[1] # ypll_arr[2]
  /\ measures_arr[1] # measures_arr[2]

\* C7: read_csv fails when the source cannot be opened; for a source that
\* opens, whatever its rows hold, no error leaves the call: the loop always
\* goes on to the next row or to the return.
C7_OnlyOpenFails ==
  /\ pc = "raised" => ~file_name.opens
  /\ pc = "returned" => file_name.opens
  /\ (pc = "call" /\ ~file_name.opens) => ENABLED OpenFails
  /\ pc = "loop" => ENABLED (Loop \/ Return)

\* read_csv returned after a row whose float() raised ValueError and a row
\* whose float() raised TypeError.
C7_Witness ==
  /\ pc = "returned"
  /\ \E i, j \in 1..Len(Data) :
       /\ ~IsUnreliable(Data[i], check_reliable) /\ ~IsSummary(Data[i])
       /\ ~IsUnreliable(Data[j], check_reliable) /\ ~IsSummary(Data[j])
       /\ Floats(Data[i], cols).exc = "ValueError"
       /\ Floats(Data[j], cols).exc = "TypeError"

\* C8: when a read_csv call has returned or failed, the file handle it
\* opened is no longer open.
C8_HandleReleased ==
  pc \in {"returned", "raised"} => handle # "open"

\* C9: when several admitted rows build the same key, the mapping returned
\* holds one entry for the key, with the values of the last such row.
C9_LastWriteWins ==
  pc = "returned" =>
    \A k \in DOMAIN rows :
      LET writers == { i \in Admitted(Data, cols, check_reliable) : Key(Data[i]) = k }
      IN rows[k] = Parsed(Data[Max(writers)], cols)

\* read_csv returned after two admitted rows of one key with different
\* values.
C9_Witness ==
  /\ pc = "returned"
  /\ Len(Data) = 2
  /\ Admitted(Data, cols, check_reliable) = {1, 2}
  /\ Key(Data[1]) = Key(Data[2])
  /\ Parsed(Data[1], cols) # Parsed(Data[2], cols)

\* C10: consuming a row that one of the three rules drops leaves the
\* mapping built so far unchanged.
C10_DroppedRowFrame ==
  [][ (pc = "loop" /\ reader' = reader + 1
         /\ Dropped(Data[reader'], cols, check_reliable))
      => rows' = rows ]_vars

\* An admitted row was followed by a dropped row of the same key, with a
\* county, and the key still has the first row's complete values.
C10_Witness ==
  /\ pc = "loop"
  /\ reader = 2
  /\ Len(cols) = 2
  /\ ~Dropped(Data[1], cols, check_reliable)
  /\ Dropped(Data[2], cols, check_reliable)
  /\ Data[2]["County"] # <<>>
  /\ Key(Data[1]) = Key(Data[2])
  /\ Key(Data[1]) \in DOMAIN rows
  /\ rows[Key(Data[1])] = Parsed(Data[1], cols)

====
